---------------------------- MODULE Spec2Model ----------------------------
(***************************************************************************)
(* Model of the Health Connect authorization component (the App function  *)
(* component): the startup initializer, the permission request handler    *)
(* with its two retry loops, the 30 s timeout timer, and the app-state     *)
(* (foreground/background) handler.                                        *)
(*                                                                         *)
(* Execution model.  JavaScript is single threaded: a handler runs from    *)
(* one await to the next without interleaving, so every action below is    *)
(* one such synchronous segment.  A state update made by a segment is      *)
(* followed by the React re-render and the effect clean-up/re-subscribe    *)
(* the update causes; both are part of the action that made the update.    *)
(* Time is counted in seconds; every pending setTimeout carries the        *)
(* number of seconds left, Tick lets one second pass, and a timer whose    *)
(* time is up runs before more time passes.  Broker calls (getSdkStatus,   *)
(* initialize, requestPermission) resolve at any moment, or never.         *)
(***************************************************************************)
EXTENDS Integers, Sequences, FiniteSets, TLC

\* ---- bounds of the model ---------------------------------------------
MaxRuns == 2        \* accepted calls of requestHealthDataPermission
MaxGrace == 1       \* grace callbacks pending at the same time
MaxSdkStatus == 3   \* getSdkStatus answers range over 0..MaxSdkStatus
MaxGrant == 1       \* pairs in a grant set returned by requestPermission

\* ---- constants of the program ------------------------------------------
SdkThreshold == 3
TimeoutDuration == 30
GraceDelay == 1
StartupSettleDelay == 1
BackoffDelay == 1
SettleDelay == 2
RetryDelay == 1
MaxInitAttempts == 3
MaxPermAttempts == 2
Null == 0

Runs == 1..MaxRuns
SdkAnswers == 0..MaxSdkStatus
InitAnswers == {"ok", "false", "throw"}
AppStates == {"active", "background", "inactive"}
AccessTypes == {"read", "write"}
RecordTypes == {"HeartRate", "HeartRateVariabilityRmssd", "SleepSession"}
GrantSets == {g \in SUBSET (AccessTypes \X RecordTypes) : Cardinality(g) <= MaxGrant}

VARIABLES
  isInitialized,            \* useState(false)
  isInitializing,           \* useState(true)
  initError,                \* useState(null): "null" or the error message
  isRequestingPermission,   \* useState(false)
  appState,                 \* useRef(AppState.currentState)
  permissionRequestTimeout, \* useRef(null): Null or the handle of a timer
  timeout,                  \* the live timeout timers: handle -> seconds left
  grace,                    \* pending grace callbacks: seconds left -> count
  startup,                  \* the run of initHealthConnect
  runs,                     \* the accepted runs of requestHealthDataPermission
  nextRun,                  \* number of the next accepted run
  blocked                   \* the last alert of the guard: "none", or whether
                            \* the call was rejected with a request in flight
                            \* ("req") or for the initialization ("init")

vars == <<isInitialized, isInitializing, initError, isRequestingPermission,
          appState, permissionRequestTimeout, timeout, grace, startup, runs,
          nextRun, blocked>>

flags == <<isInitialized, isInitializing, initError, isRequestingPermission>>

\* A run of requestHealthDataPermission: where it is suspended (pc), its
\* locals (sdkStatus, attempt and initSuccess of the initialization loop,
\* pattempt of the permission loop), the seconds left of the delay it awaits,
\* the broker calls it has issued, the faults of requestPermission it has
\* caught, the answer of the forced re-initialization, the grant set
\* requestPermission returned (granted, <<>> while it is null), the alerts it
\* has shown
IdleRun == [pc |-> "idle", sdkStatus |-> <<>>, attempt |-> 0,
            initSuccess |-> FALSE, pattempt |-> 0, left |-> 0, sdkCalls |-> 0,
            initCalls |-> 0, permCalls |-> 0, permFaults |-> 0,
            reinit |-> "none", granted |-> <<>>, alerts |-> <<>>]

Init ==
  /\ isInitialized = FALSE
  /\ isInitializing = TRUE
  /\ initError = "null"
  /\ isRequestingPermission = FALSE
  /\ appState \in AppStates
  /\ permissionRequestTimeout = Null
  /\ timeout = [h \in {} |-> 0]
  /\ grace = [k \in 0..GraceDelay |-> 0]
  /\ startup = [pc |-> "sdk", sdkStatus |-> <<>>, left |-> 0, sdkCalls |-> 1,
                initCalls |-> 0]
  /\ runs = [r \in Runs |-> IdleRun]
  /\ nextRun = 1
  /\ blocked = "none"

\* ---- timers and the effect clean-up ---------------------------------------

\* clearTimeout(h): the timer of handle h, if it is still pending, is dropped
ClearTimeout(tm, h) == [x \in (DOMAIN tm) \ {h} |-> tm[x]]

\* the clean-up of the app-state effect without its clearTimeout
EffectCleanup_NoClear(tm, ref) == tm

\* the clean-up of the app-state effect
EffectCleanup(tm, ref) == IF ref # Null THEN ClearTimeout(tm, ref) ELSE tm

\* the timers after setIsRequestingPermission(v): when the value changes the
\* component re-renders and the app-state effect, whose dependency is
\* isRequestingPermission, runs its clean-up and subscribes again
SetIsRequestingPermission(v, tm, ref) ==
  IF v # isRequestingPermission THEN EffectCleanup(tm, ref) ELSE tm

\* the guard without its test of isRequestingPermission
Blocked_NoRequestTest == ~isInitialized \/ isInitializing

\* the guard without its test of isInitializing
Blocked_NoInitializingTest == ~isInitialized \/ isRequestingPermission

\* the guard without its test of isInitialized
Blocked_NoInitializedTest == isInitializing \/ isRequestingPermission

\* the guard of requestHealthDataPermission
Blocked == ~isInitialized \/ isInitializing \/ isRequestingPermission

Delaying(r) == runs[r].pc \in {"backoff", "settle", "retrywait"}
Active(r) == runs[r].pc \notin {"idle", "done"}

DueTimers ==
  {[kind |-> "timeout", id |-> h] : h \in {x \in DOMAIN timeout : timeout[x] = 0}}
  \cup {[kind |-> "delay", id |-> r] : r \in {x \in Runs : Delaying(x) /\ runs[x].left = 0}}
  \cup (IF startup.pc = "settle" /\ startup.left = 0
        THEN {[kind |-> "startup", id |-> 0]} ELSE {})
  \cup (IF grace[0] > 0 THEN {[kind |-> "grace", id |-> 0]} ELSE {})

AnyLive ==
  \/ DOMAIN timeout # {}
  \/ \E r \in Runs : Delaying(r)
  \/ startup.pc = "settle"
  \/ \E k \in 0..GraceDelay : grace[k] > 0

\* one second passes: only when some timer is pending, none of them is due
Tick ==
  /\ AnyLive
  /\ DueTimers = {}
  /\ timeout' = [h \in DOMAIN timeout |-> timeout[h] - 1]
  /\ grace' = [k \in 0..GraceDelay |-> IF k < GraceDelay THEN grace[k + 1] ELSE 0]
  /\ startup' = IF startup.pc = "settle"
                THEN [startup EXCEPT !.left = @ - 1] ELSE startup
  /\ runs' = [r \in Runs |-> IF Delaying(r)
                             THEN [runs[r] EXCEPT !.left = @ - 1] ELSE runs[r]]
  /\ UNCHANGED <<flags, appState, permissionRequestTimeout, nextRun, blocked>>

\* ---- initHealthConnect (the startup effect) --------------------------------

\* catch and finally of initHealthConnect
StartupFailed(message) ==
  /\ initError' = message
  /\ isInitialized' = FALSE
  /\ isInitializing' = FALSE

\* initHealthConnect with the status test off by one (sdkStatus < 2)
StartupSdkStatus_OffByOne ==
  /\ startup.pc = "sdk"
  /\ \E sdkStatus \in SdkAnswers, fault \in BOOLEAN :
       IF fault
       THEN /\ StartupFailed("fault")
            /\ startup' = [startup EXCEPT !.pc = "done"]
       ELSE IF sdkStatus < SdkThreshold - 1
       THEN /\ StartupFailed("sdk not available")
            /\ startup' = [startup EXCEPT !.pc = "done",
                                          !.sdkStatus = <<sdkStatus>>]
       ELSE /\ startup' = [startup EXCEPT !.pc = "init", !.initCalls = @ + 1,
                                          !.sdkStatus = <<sdkStatus>>]
            /\ UNCHANGED <<isInitialized, isInitializing, initError>>
  /\ UNCHANGED <<isRequestingPermission, appState, permissionRequestTimeout,
                 timeout, grace, runs, nextRun, blocked>>

\* getSdkStatus resolves (or faults) in initHealthConnect
StartupSdkStatus ==
  /\ startup.pc = "sdk"
  /\ \E sdkStatus \in SdkAnswers, fault \in BOOLEAN :
       IF fault
       THEN /\ StartupFailed("fault")
            /\ startup' = [startup EXCEPT !.pc = "done"]
       ELSE IF sdkStatus < SdkThreshold
       THEN /\ StartupFailed("sdk not available")
            /\ startup' = [startup EXCEPT !.pc = "done",
                                          !.sdkStatus = <<sdkStatus>>]
       ELSE /\ startup' = [startup EXCEPT !.pc = "init", !.initCalls = @ + 1,
                                          !.sdkStatus = <<sdkStatus>>]
            /\ UNCHANGED <<isInitialized, isInitializing, initError>>
  /\ UNCHANGED <<isRequestingPermission, appState, permissionRequestTimeout,
                 timeout, grace, runs, nextRun, blocked>>

\* initialize resolves (or faults) in initHealthConnect
StartupInitialize ==
  /\ startup.pc = "init"
  /\ \E initialized \in InitAnswers :
       CASE initialized = "ok" ->
              /\ isInitialized' = TRUE
              /\ startup' = [startup EXCEPT !.pc = "settle",
                                            !.left = StartupSettleDelay]
              /\ UNCHANGED <<isInitializing, initError>>
         [] initialized = "false" ->
              /\ StartupFailed("initialization returned false")
              /\ startup' = [startup EXCEPT !.pc = "done"]
         [] OTHER ->
              /\ StartupFailed("fault")
              /\ startup' = [startup EXCEPT !.pc = "done"]
  /\ UNCHANGED <<isRequestingPermission, appState, permissionRequestTimeout,
                 timeout, grace, runs, nextRun, blocked>>

\* the settle pause of initHealthConnect is over: finally
StartupSettled ==
  /\ isInitializing' = FALSE
  /\ startup' = [startup EXCEPT !.pc = "done"]
  /\ UNCHANGED <<isInitialized, initError, isRequestingPermission, appState,
                 permissionRequestTimeout, timeout, grace, runs, nextRun, blocked>>

\* ---- requestHealthDataPermission -------------------------------------------

\* the containment test without its test of accessType
sleepGranted_AnyAccess(granted) ==
  \E p \in granted : p[2] = "SleepSession"

\* granted.some(p => p.recordType === 'SleepSession' && p.accessType === 'read')
sleepGranted(granted) ==
  \E p \in granted : p[2] = "SleepSession" /\ p[1] = "read"

\* the end of the handler after the retry loops, and its catch block: the
\* timer the ref points at is cleared, the ref is reset, the in-flight flag
\* is cleared and one alert is shown
Finish(r, rec, notice) ==
  /\ timeout' = SetIsRequestingPermission(
                   FALSE, ClearTimeout(timeout, permissionRequestTimeout), Null)
  /\ permissionRequestTimeout' = Null
  /\ isRequestingPermission' = FALSE
  /\ runs' = [runs EXCEPT ![r] = [rec EXCEPT !.pc = "done",
                                             !.alerts = Append(@, notice)]]

\* a call of requestHealthDataPermission, up to its first await.  An accepted
\* call sets the flag, arms the timer and stores its handle in the ref; the
\* re-render that setIsRequestingPermission(true) causes then runs the effect
\* clean-up, which reads the ref as the handler left it.
Press ==
  IF Blocked
  THEN /\ blocked' = IF isRequestingPermission THEN "req" ELSE "init"
       /\ UNCHANGED <<flags, appState, permissionRequestTimeout, timeout,
                      grace, startup, runs, nextRun>>
  ELSE LET r == nextRun
           armed == [h \in (DOMAIN timeout) \cup {r} |->
                       IF h = r THEN TimeoutDuration ELSE timeout[h]]
       IN /\ nextRun <= MaxRuns
          /\ isRequestingPermission' = TRUE
          /\ permissionRequestTimeout' = r
          /\ timeout' = SetIsRequestingPermission(TRUE, armed, r)
          /\ runs' = [runs EXCEPT ![r] = [IdleRun EXCEPT !.pc = "sdk",
                                                         !.sdkCalls = 1]]
          /\ nextRun' = r + 1
          /\ UNCHANGED <<isInitialized, isInitializing, initError, appState,
                         grace, startup, blocked>>

\* the SDK re-check with the status test off by one (sdkStatus < 2)
RunSdkStatus_OffByOne(r) ==
  /\ runs[r].pc = "sdk"
  /\ \E sdkStatus \in SdkAnswers, fault \in BOOLEAN :
       IF fault
       THEN Finish(r, runs[r], "error")
       ELSE IF sdkStatus < SdkThreshold - 1
       THEN /\ runs' = [runs EXCEPT ![r].pc = "done",
                                    ![r].sdkStatus = <<sdkStatus>>,
                                    ![r].alerts = Append(@, "install")]
            /\ UNCHANGED <<isRequestingPermission, permissionRequestTimeout,
                           timeout>>
       ELSE /\ runs' = [runs EXCEPT ![r].pc = "init", ![r].attempt = 1,
                                    ![r].sdkStatus = <<sdkStatus>>,
                                    ![r].initCalls = @ + 1]
            /\ UNCHANGED <<isRequestingPermission, permissionRequestTimeout,
                           timeout>>
  /\ UNCHANGED <<isInitialized, isInitializing, initError, appState, grace,
                 startup, nextRun, blocked>>

\* the SDK re-check without the return after its alert: the run goes on to
\* the initialization loop
RunSdkStatus_NoReturn(r) ==
  /\ runs[r].pc = "sdk"
  /\ \E sdkStatus \in SdkAnswers, fault \in BOOLEAN :
       IF fault
       THEN Finish(r, runs[r], "error")
       ELSE IF sdkStatus < SdkThreshold
       THEN /\ runs' = [runs EXCEPT ![r].pc = "init", ![r].attempt = 1,
                                    ![r].sdkStatus = <<sdkStatus>>,
                                    ![r].initCalls = @ + 1,
                                    ![r].alerts = Append(@, "install")]
            /\ UNCHANGED <<isRequestingPermission, permissionRequestTimeout,
                           timeout>>
       ELSE /\ runs' = [runs EXCEPT ![r].pc = "init", ![r].attempt = 1,
                                    ![r].sdkStatus = <<sdkStatus>>,
                                    ![r].initCalls = @ + 1]
            /\ UNCHANGED <<isRequestingPermission, permissionRequestTimeout,
                           timeout>>
  /\ UNCHANGED <<isInitialized, isInitializing, initError, appState, grace,
                 startup, nextRun, blocked>>

\* getSdkStatus resolves (or faults) in run r
RunSdkStatus(r) ==
  /\ runs[r].pc = "sdk"
  /\ \E sdkStatus \in SdkAnswers, fault \in BOOLEAN :
       IF fault
       THEN Finish(r, runs[r], "error")
       ELSE IF sdkStatus < SdkThreshold
       THEN /\ runs' = [runs EXCEPT ![r].pc = "done",
                                    ![r].sdkStatus = <<sdkStatus>>,
                                    ![r].alerts = Append(@, "install")]
            /\ UNCHANGED <<isRequestingPermission, permissionRequestTimeout,
                           timeout>>
       ELSE /\ runs' = [runs EXCEPT ![r].pc = "init", ![r].attempt = 1,
                                    ![r].sdkStatus = <<sdkStatus>>,
                                    ![r].initCalls = @ + 1]
            /\ UNCHANGED <<isRequestingPermission, permissionRequestTimeout,
                           timeout>>
  /\ UNCHANGED <<isInitialized, isInitializing, initError, appState, grace,
                 startup, nextRun, blocked>>

\* the initialization loop without the test of initSuccess after it: when the
\* attempts are used up the run goes on to the settle pause
RunInitialize_NoExhaustTest(r) ==
  /\ runs[r].pc = "init"
  /\ \E initialized \in InitAnswers :
       IF initialized = "ok"
       THEN runs' = [runs EXCEPT ![r].initSuccess = TRUE,
                                 ![r].pc = "settle", ![r].left = SettleDelay]
       ELSE IF runs[r].attempt < MaxInitAttempts
       THEN runs' = [runs EXCEPT ![r].pc = "backoff", ![r].left = BackoffDelay]
       ELSE runs' = [runs EXCEPT ![r].pc = "settle", ![r].left = SettleDelay]
  /\ UNCHANGED <<flags, permissionRequestTimeout, timeout, appState, grace,
                 startup, nextRun, blocked>>

\* the initialization loop without the try/catch around initialize: a fault
\* of an attempt leaves the loop for the catch block of the handler
RunInitialize_ThrowEndsLoop(r) ==
  /\ runs[r].pc = "init"
  /\ \E initialized \in InitAnswers :
       IF initialized = "ok"
       THEN /\ runs' = [runs EXCEPT ![r].initSuccess = TRUE,
                                    ![r].pc = "settle", ![r].left = SettleDelay]
            /\ UNCHANGED <<isRequestingPermission, permissionRequestTimeout,
                           timeout>>
       ELSE IF initialized = "false" /\ runs[r].attempt < MaxInitAttempts
       THEN /\ runs' = [runs EXCEPT ![r].pc = "backoff",
                                    ![r].left = BackoffDelay]
            /\ UNCHANGED <<isRequestingPermission, permissionRequestTimeout,
                           timeout>>
       ELSE Finish(r, runs[r], "error")
  /\ UNCHANGED <<isInitialized, isInitializing, initError, appState, grace,
                 startup, nextRun, blocked>>

\* initialize resolves (or faults) in the initialization loop of run r
RunInitialize(r) ==
  /\ runs[r].pc = "init"
  /\ \E initialized \in InitAnswers :
       IF initialized = "ok"
       THEN /\ runs' = [runs EXCEPT ![r].initSuccess = TRUE,
                                    ![r].pc = "settle", ![r].left = SettleDelay]
            /\ UNCHANGED <<isRequestingPermission, permissionRequestTimeout,
                           timeout>>
       ELSE IF runs[r].attempt < MaxInitAttempts
       THEN /\ runs' = [runs EXCEPT ![r].pc = "backoff",
                                    ![r].left = BackoffDelay]
            /\ UNCHANGED <<isRequestingPermission, permissionRequestTimeout,
                           timeout>>
       ELSE Finish(r, runs[r], "error")
  /\ UNCHANGED <<isInitialized, isInitializing, initError, appState, grace,
                 startup, nextRun, blocked>>

\* a delay of run r is over: the next initialize attempt after a backoff,
\* the first requestPermission after the settle pause, the second after the
\* pause that follows the forced re-initialization
ResumeRun(r) ==
  /\ runs' = [runs EXCEPT ![r] =
       CASE runs[r].pc = "backoff" ->
              [@ EXCEPT !.pc = "init", !.attempt = @ + 1, !.initCalls = @ + 1]
         [] runs[r].pc = "settle" ->
              [@ EXCEPT !.pc = "perm", !.pattempt = 1, !.permCalls = @ + 1]
         [] OTHER ->
              [@ EXCEPT !.pc = "perm", !.pattempt = @ + 1, !.permCalls = @ + 1]]
  /\ UNCHANGED <<flags, appState, permissionRequestTimeout, timeout, grace,
                 startup, nextRun, blocked>>

\* the permission loop without the break after a successful call: the first
\* success is followed by a second requestPermission
RunPermission_NoBreak(r) ==
  /\ runs[r].pc = "perm"
  /\ \E granted \in GrantSets, fault \in BOOLEAN :
       IF ~fault /\ runs[r].pattempt < MaxPermAttempts
       THEN /\ runs' = [runs EXCEPT ![r].pattempt = @ + 1, ![r].permCalls = @ + 1]
            /\ UNCHANGED <<isRequestingPermission, permissionRequestTimeout,
                           timeout>>
       ELSE IF ~fault
       THEN Finish(r, [runs[r] EXCEPT !.granted = <<granted>>],
                   IF sleepGranted(granted) THEN "granted" ELSE "denied")
       ELSE IF runs[r].pattempt < MaxPermAttempts
       THEN /\ runs' = [runs EXCEPT ![r].pc = "reinit", ![r].initCalls = @ + 1,
                                    ![r].permFaults = @ + 1]
            /\ UNCHANGED <<isRequestingPermission, permissionRequestTimeout,
                           timeout>>
       ELSE Finish(r, [runs[r] EXCEPT !.permFaults = @ + 1], "error")
  /\ UNCHANGED <<isInitialized, isInitializing, initError, appState, grace,
                 startup, nextRun, blocked>>

\* requestPermission resolves (or faults) in run r
RunPermission(r) ==
  /\ runs[r].pc = "perm"
  /\ \E granted \in GrantSets, fault \in BOOLEAN :
       IF ~fault
       THEN Finish(r, [runs[r] EXCEPT !.granted = <<granted>>],
                   IF sleepGranted(granted) THEN "granted" ELSE "denied")
       ELSE IF runs[r].pattempt < MaxPermAttempts
       THEN /\ runs' = [runs EXCEPT ![r].pc = "reinit", ![r].initCalls = @ + 1,
                                    ![r].permFaults = @ + 1]
            /\ UNCHANGED <<isRequestingPermission, permissionRequestTimeout,
                           timeout>>
       ELSE Finish(r, [runs[r] EXCEPT !.permFaults = @ + 1], "error")
  /\ UNCHANGED <<isInitialized, isInitializing, initError, appState, grace,
                 startup, nextRun, blocked>>

\* the forced initialize between the two requestPermission attempts resolves
\* (its value is ignored) or faults (the fault leaves the loop)
RunReinitialize(r) ==
  /\ runs[r].pc = "reinit"
  /\ \E initialized \in InitAnswers :
       IF initialized # "throw"
       THEN /\ runs' = [runs EXCEPT ![r].pc = "retrywait", ![r].left = RetryDelay,
                                    ![r].reinit = initialized]
            /\ UNCHANGED <<isRequestingPermission, permissionRequestTimeout,
                           timeout>>
       ELSE Finish(r, [runs[r] EXCEPT !.reinit = initialized], "error")
  /\ UNCHANGED <<isInitialized, isInitializing, initError, appState, grace,
                 startup, nextRun, blocked>>

\* ---- the timeout callback and the app-state handler ------------------------

\* the callback of the timeout timer armed by run h.  It runs only if the
\* timer is still pending when its 30 s are over; the clean-up of the
\* app-state effect clears the timer in the step that arms it (see Press), so
\* no behaviour of Spec reaches this callback.
TimeoutCallback(h) ==
  /\ isRequestingPermission' = FALSE
  /\ timeout' = SetIsRequestingPermission(FALSE, ClearTimeout(timeout, h),
                                          permissionRequestTimeout)
  /\ runs' = [runs EXCEPT ![h].alerts = Append(@, "timeout")]
  /\ UNCHANGED <<isInitialized, isInitializing, initError, appState,
                 permissionRequestTimeout, grace, startup, nextRun, blocked>>

\* the grace callback that also resets the initialization result, as the
\* catch of the startup routine does
GraceCallback_ResetsInitialized ==
  /\ grace' = [grace EXCEPT ![0] = @ - 1]
  /\ isRequestingPermission' = FALSE
  /\ isInitialized' = FALSE
  /\ timeout' = SetIsRequestingPermission(FALSE, timeout, permissionRequestTimeout)
  /\ UNCHANGED <<isInitializing, initError, appState,
                 permissionRequestTimeout, startup, runs, nextRun, blocked>>

\* the callback handleAppStateChange schedules on a return to the foreground
GraceCallback ==
  /\ grace' = [grace EXCEPT ![0] = @ - 1]
  /\ isRequestingPermission' = FALSE
  /\ timeout' = SetIsRequestingPermission(FALSE, timeout, permissionRequestTimeout)
  /\ UNCHANGED <<isInitialized, isInitializing, initError, appState,
                 permissionRequestTimeout, startup, runs, nextRun, blocked>>

GracePending == grace[0] + grace[GraceDelay]

\* handleAppStateChange without the clearing of the timeout timer
handleAppStateChange_NoCancel(nextAppState) ==
  /\ IF appState = "background" /\ nextAppState = "active" /\ isRequestingPermission
     THEN /\ GracePending < MaxGrace
          /\ grace' = [grace EXCEPT ![GraceDelay] = @ + 1]
          /\ UNCHANGED <<timeout, permissionRequestTimeout>>
     ELSE UNCHANGED <<timeout, permissionRequestTimeout, grace>>
  /\ appState' = nextAppState
  /\ UNCHANGED <<flags, startup, runs, nextRun, blocked>>

\* the listener of AppState 'change' events
handleAppStateChange(nextAppState) ==
  /\ IF appState = "background" /\ nextAppState = "active" /\ isRequestingPermission
     THEN /\ GracePending < MaxGrace
          /\ timeout' = ClearTimeout(timeout, permissionRequestTimeout)
          /\ permissionRequestTimeout' = Null
          /\ grace' = [grace EXCEPT ![GraceDelay] = @ + 1]
     ELSE UNCHANGED <<timeout, permissionRequestTimeout, grace>>
  /\ appState' = nextAppState
  /\ UNCHANGED <<flags, startup, runs, nextRun, blocked>>

AppStateChange == \E nextAppState \in AppStates \ {appState} :
                     handleAppStateChange(nextAppState)

\* a timer whose time is up runs its callback
FireTimer(t) ==
  CASE t.kind = "timeout" -> TimeoutCallback(t.id)
    [] t.kind = "grace" -> GraceCallback
    [] t.kind = "delay" -> ResumeRun(t.id)
    [] OTHER -> StartupSettled

TimerFire == \E t \in DueTimers : FireTimer(t)

\* ---- the rendered button -----------------------------------------------------

\* the disabled prop without its test of isRequestingPermission
buttonDisabled_NoRequestTest == ~isInitialized \/ isInitializing

\* the disabled prop of the button
buttonDisabled == ~isInitialized \/ isInitializing \/ isRequestingPermission

\* the title prop of the button
buttonTitle ==
  IF isInitializing THEN "initializing"
  ELSE IF isRequestingPermission THEN "requesting"
  ELSE "request"

\* the button is pressed; that takes the app in the foreground
ButtonPress == appState = "active" /\ Press

BrokerSdkStatus == \E r \in Runs : RunSdkStatus(r)
BrokerInitialize == \E r \in Runs : RunInitialize(r)
BrokerPermission == \E r \in Runs : RunPermission(r)
BrokerReinitialize == \E r \in Runs : RunReinitialize(r)

Next ==
  \/ StartupSdkStatus
  \/ StartupInitialize
  \/ ButtonPress
  \/ BrokerSdkStatus
  \/ BrokerInitialize
  \/ BrokerPermission
  \/ BrokerReinitialize
  \/ AppStateChange
  \/ TimerFire
  \/ Tick

Spec == Init /\ [][Next]_vars

TypeOK ==
  /\ isInitialized \in BOOLEAN /\ isInitializing \in BOOLEAN
  /\ isRequestingPermission \in BOOLEAN
  /\ appState \in AppStates
  /\ permissionRequestTimeout \in {Null} \cup Runs
  /\ DOMAIN timeout \subseteq Runs
  /\ nextRun \in 1..(MaxRuns + 1)
  /\ blocked \in {"none", "init", "req"}

\* ---- properties -------------------------------------------------------------

InFlight == {r \in Runs : Active(r)}

\* C1: at most one permission request is in flight at any time: there are
\* never two accepted runs of requestHealthDataPermission active at once, and
\* so never two outstanding requestPermission calls.
C1_AtMostOneInFlight ==
  /\ Cardinality(InFlight) <= 1
  /\ Cardinality({r \in Runs : runs[r].pc = "perm"}) <= 1

\* C2: a call of requestHealthDataPermission made while
\* isRequestingPermission is true changes none of the four flags, leaves the
\* timeout timer and its ref alone and issues no broker call.
C2_BlockedCallIsNoOp ==
  [][(isRequestingPermission /\ Press) =>
       UNCHANGED <<flags, permissionRequestTimeout, timeout, runs, startup,
                   nextRun>>]_vars

C2_Witness == blocked = "req" /\ isRequestingPermission /\ InFlight # {}

\* C3: the timeout timer armed at request entry stays armed until it fires:
\* while the request that armed it is running, is still flagged in flight and
\* neither the handler nor a return to the foreground has reset the ref, the
\* timer is pending.
C3_TimeoutStaysArmed ==
  \A r \in Runs :
    (Active(r) /\ isRequestingPermission /\ permissionRequestTimeout = r)
      => r \in DOMAIN timeout

\* the alerts of the failure paths of the handler
FailureNotices == {"install", "error"}

\* C4: when the handler of an accepted request finishes on a failure path
\* (SDK status unusable at the re-check, attempts exhausted, another fault),
\* the in-flight flag is cleared and the timeout timer is disarmed.
C4_FailureClearsFlagAndTimer ==
  [][\A r \in Runs :
       (Active(r) /\ runs'[r].pc = "done"
          /\ runs'[r].alerts[Len(runs'[r].alerts)] \in FailureNotices)
         => (~isRequestingPermission'
             /\ permissionRequestTimeout' = Null
             /\ r \notin DOMAIN timeout')]_vars

\* a run whose request was ended while it was still running: the flag it set
\* has been cleared, or a newer request has been accepted since
Ended(r) == Active(r) /\ (~isRequestingPermission \/ nextRun > r + 1)

\* C5: a broker result or fault that ends a run whose request was already
\* ended by the timeout or by foreground recovery changes neither the
\* in-flight flag nor the timeout timer and shows no alert.
C5_LateResultDiscarded ==
  [][\A r \in Runs :
       (Ended(r) /\ runs'[r].pc = "done")
         => (UNCHANGED <<isRequestingPermission, permissionRequestTimeout, timeout>>
             /\ runs'[r].alerts = runs[r].alerts)]_vars

\* C6: with isRequestingPermission true, a change of the app state from
\* background to active clears the timeout timer and its ref and schedules a
\* callback one second later, showing no alert and leaving the flags alone;
\* that callback clears isRequestingPermission and shows no alert.
C6_ForegroundRecovery ==
  [][/\ (appState = "background" /\ appState' = "active" /\ isRequestingPermission)
          => /\ permissionRequestTimeout' = Null
             /\ permissionRequestTimeout \notin DOMAIN timeout'
             /\ grace'[GraceDelay] = grace[GraceDelay] + 1
             /\ grace'[0] = grace[0]
             /\ UNCHANGED <<flags, runs, blocked>>
     /\ (grace'[0] < grace[0])
          => /\ ~isRequestingPermission'
             /\ UNCHANGED <<isInitialized, isInitializing, initError, runs,
                            blocked, permissionRequestTimeout>>
             /\ DOMAIN timeout' \subseteq DOMAIN timeout]_vars

\* a run still waiting for requestPermission whose flag was cleared by the
\* grace callback: it has shown no alert and no newer run was accepted
C6_Witness ==
  \E r \in Runs :
    /\ runs[r].pc = "perm" /\ runs[r].alerts = <<>> /\ nextRun = r + 1
    /\ ~isRequestingPermission /\ permissionRequestTimeout = Null
    /\ GracePending = 0 /\ appState = "active"

\* C7: no permission request is accepted before the startup initialization
\* has completed, nor ever after it has failed: a call made while
\* isInitializing is true or isInitialized is false sets no flag, arms no
\* timer and issues no broker call; a run is accepted only with the startup
\* finished and successful; a failed startup stays failed.
C7_NoRequestBeforeInit ==
  [][/\ ((isInitializing \/ ~isInitialized) /\ Press)
          => UNCHANGED <<flags, permissionRequestTimeout, timeout, runs,
                         startup, nextRun>>
     /\ (\E r \in Runs : runs[r].pc = "idle" /\ runs'[r].pc # "idle")
          => (isInitialized /\ ~isInitializing /\ startup.pc = "done")
     /\ (startup.pc = "done" /\ ~isInitialized) => ~isInitialized']_vars

\* a call rejected during the settle pause that follows a successful initialize
C7_Witness == blocked = "init" /\ startup.pc = "settle" /\ isInitialized

\* C8: if getSdkStatus answers below the threshold during the startup
\* initialization, initialize is never called by the initializer and the
\* state is InitFailed.
C8_StartupSdkUnusable ==
  (startup.sdkStatus # <<>> /\ startup.sdkStatus[1] < SdkThreshold)
    => /\ startup.initCalls = 0
       /\ startup.pc = "done"
       /\ ~isInitialized /\ ~isInitializing /\ initError # "null"

C8_Witness ==
  /\ startup.sdkStatus # <<>> /\ startup.sdkStatus[1] < SdkThreshold
  /\ startup.pc = "done"

\* C9: within one accepted request, if initialize succeeds only on attempt 3,
\* the run goes on from the settle pause to call requestPermission, and has
\* called it exactly once as long as no call of it has faulted.
C9_ThirdAttemptProceeds ==
  \A r \in Runs :
    (runs[r].attempt = MaxInitAttempts /\ runs[r].initSuccess)
      => \/ runs[r].pc = "settle" /\ runs[r].permCalls = 0
         \/ /\ runs[r].pc \in {"perm", "reinit", "retrywait", "done"}
            /\ runs[r].permCalls >= 1
            /\ (runs[r].permFaults = 0 => runs[r].permCalls = 1)

C9_Witness ==
  \E r \in Runs :
    /\ runs[r].attempt = MaxInitAttempts /\ runs[r].initSuccess
    /\ runs[r].pc = "done" /\ runs[r].permCalls = 1 /\ runs[r].permFaults = 0

\* C10: within one accepted request, once all 3 initialize attempts have
\* failed the run is over with an error alert and requestPermission was
\* never called for it.
C10_InitExhaustedIsFatal ==
  \A r \in Runs :
    (runs[r].attempt = MaxInitAttempts /\ ~runs[r].initSuccess
       /\ runs[r].pc # "init")
      => /\ runs[r].pc = "done"
         /\ runs[r].permCalls = 0
         /\ runs[r].alerts # <<>> /\ runs[r].alerts[1] = "error"

C10_Witness ==
  \E r \in Runs :
    /\ runs[r].attempt = MaxInitAttempts /\ ~runs[r].initSuccess
    /\ runs[r].pc = "done" /\ runs[r].initCalls = MaxInitAttempts

\* the pair the classification looks for
SleepRead == <<"read", "SleepSession">>

\* C11: when requestPermission succeeds, the run ends in that step with the
\* success alert if and only if the returned grant set contains the pair
\* (read, SleepSession) and with the denial alert otherwise; in both cases no
\* error alert is shown, the in-flight flag is cleared and the timer disarmed.
C11_GrantClassification ==
  [][\A r \in Runs :
       (runs[r].pc = "perm" /\ runs'[r].granted # <<>>)
         => /\ runs'[r].pc = "done"
            /\ runs'[r].alerts =
                 Append(runs[r].alerts,
                        IF SleepRead \in runs'[r].granted[1]
                        THEN "granted" ELSE "denied")
            /\ ~isRequestingPermission'
            /\ permissionRequestTimeout' = Null
            /\ r \notin DOMAIN timeout']_vars

\* one run granted the pair, another answered with a SleepSession pair that
\* is not a read pair and denied
C11_Witness ==
  \E r1, r2 \in Runs :
    /\ runs[r1].granted = <<{SleepRead}>> /\ runs[r1].alerts = <<"granted">>
    /\ runs[r2].granted = <<{<<"write", "SleepSession">>}>>
    /\ runs[r2].alerts = <<"denied">>

\* C12: if the SDK re-check of an accepted request answers below the
\* threshold, the run is over at once: it has shown the install alert and
\* has called neither initialize nor requestPermission.
C12_RecheckFailsFast ==
  \A r \in Runs :
    (runs[r].sdkStatus # <<>> /\ runs[r].sdkStatus[1] < SdkThreshold)
      => /\ runs[r].pc = "done"
         /\ runs[r].sdkCalls = 1
         /\ runs[r].initCalls = 0
         /\ runs[r].permCalls = 0
         /\ runs[r].alerts # <<>> /\ runs[r].alerts[1] = "install"

C12_Witness ==
  \E r \in Runs :
    /\ runs[r].sdkStatus # <<>> /\ runs[r].sdkStatus[1] < SdkThreshold
    /\ runs[r].pc = "done"

\* C13: the four flags never alias two states: isRequestingPermission is
\* never true together with isInitializing true or isInitialized false, and
\* initError is never set together with isInitialized true.
C13_FlagsNameOneState ==
  /\ isRequestingPermission => (isInitialized /\ ~isInitializing)
  /\ initError # "null" => ~isInitialized

\* a request in flight after a successful startup
C13_Witness ==
  /\ isRequestingPermission /\ InFlight # {}
  /\ isInitialized /\ ~isInitializing /\ initError = "null"

\* C14: in every state where isRequestingPermission is false no timeout
\* timer is pending.
C14_NoTimerOutsideRequest ==
  ~isRequestingPermission => DOMAIN timeout = {}

\* a request has been accepted and has left the requesting state
C14_Witness ==
  /\ ~isRequestingPermission /\ DOMAIN timeout = {}
  /\ \E r \in Runs : runs[r].pc = "done" /\ runs[r].granted # <<>>

\* C15: when the first requestPermission of a run faults, a second one is
\* made whatever the forced re-initialization answers; a run makes at most 2
\* requestPermission calls, and a run that got as far as requestPermission
\* ends with the error alert only when both calls faulted.
C15_SecondAttemptAlwaysMade ==
  \A r \in Runs :
    /\ runs[r].permCalls <= MaxPermAttempts
    /\ (runs[r].pc = "done" /\ runs[r].permFaults >= 1)
         => runs[r].permCalls = MaxPermAttempts
    /\ (runs[r].pc = "done" /\ runs[r].permCalls >= 1
          /\ runs[r].alerts[1] = "error")
         => runs[r].permFaults = MaxPermAttempts

\* C16: every requestPermission call of a run follows a successful
\* initialize: the first comes after the initialization loop succeeded, the
\* second after the forced re-initialization answered success.
C16_PermissionAfterSuccessfulInit ==
  \A r \in Runs :
    /\ runs[r].permCalls >= 1 => runs[r].initSuccess
    /\ runs[r].permCalls >= MaxPermAttempts => runs[r].reinit = "ok"

\* C17: the initialization loop of a run makes at most 3 attempts and stops
\* at the first success (no further attempt and no backoff, the settle pause
\* starts); a backoff of 1 second is taken only after a failed attempt that
\* is not the last and is followed by the next attempt; an attempt that
\* faults before the last does not end the run.
C17_InitLoop ==
  [][\A r \in Runs :
       /\ runs'[r].attempt <= MaxInitAttempts
       /\ runs[r].initSuccess
            => /\ runs'[r].attempt = runs[r].attempt
               /\ runs'[r].initSuccess
               /\ runs'[r].pc \notin {"init", "backoff"}
       /\ (runs[r].pc = "init" /\ runs'[r].initSuccess)
            => /\ runs'[r].pc = "settle" /\ runs'[r].left = SettleDelay
               /\ runs'[r].initCalls = runs[r].initCalls
       /\ (runs[r].pc = "init" /\ runs[r].attempt < MaxInitAttempts)
            => runs'[r].pc \in {"init", "settle", "backoff"}
       /\ (runs[r].pc # "backoff" /\ runs'[r].pc = "backoff")
            => /\ runs[r].pc = "init" /\ runs[r].attempt < MaxInitAttempts
               /\ ~runs'[r].initSuccess
               /\ runs'[r].left = BackoffDelay
       /\ (runs[r].pc = "backoff" /\ runs'[r].pc # "backoff")
            => /\ runs[r].left = 0
               /\ runs'[r].pc = "init"
               /\ runs'[r].attempt = runs[r].attempt + 1
               /\ runs'[r].initCalls = runs[r].initCalls + 1]_vars

\* a run whose loop stopped at the success of attempt 2, after one backoff
C17_Witness ==
  \E r \in Runs :
    /\ runs[r].pc = "settle" /\ runs[r].initSuccess
    /\ runs[r].attempt = 2 /\ runs[r].initCalls = 2

\* C18: the grace callback does not clear the flag of a request that was
\* accepted after the callback was scheduled.  The ref names the newest
\* accepted run only while no return to the foreground has been handled
\* since that run was accepted (the handler resets the ref, only an accepted
\* call sets it), so a callback that fires in such a state was scheduled for
\* an earlier request.
C18_GraceSparesNewerRequest ==
  [][(grace'[0] < grace[0] /\ isRequestingPermission
        /\ permissionRequestTimeout # Null
        /\ permissionRequestTimeout = nextRun - 1)
       => isRequestingPermission']_vars

\* the alerts of the outcomes of a request
OutcomeNotices == {"granted", "denied", "install", "error", "timeout"}

\* C19: in every state the button is enabled exactly when isInitialized and
\* not isInitializing and not isRequestingPermission, a call of
\* requestHealthDataPermission is accepted exactly when the button is
\* enabled, and the title is the initializing one whenever isInitializing,
\* else the requesting one whenever isRequestingPermission, else the request
\* one.
C19_ButtonAgreesWithGuard ==
  [][/\ ~buttonDisabled
          <=> (isInitialized /\ ~isInitializing /\ ~isRequestingPermission)
     /\ isInitializing => buttonTitle = "initializing"
     /\ (~isInitializing /\ isRequestingPermission) => buttonTitle = "requesting"
     /\ (~isInitializing /\ ~isRequestingPermission) => buttonTitle = "request"
     /\ Press => (~buttonDisabled <=> nextRun' = nextRun + 1)
     /\ (Press /\ buttonDisabled)
          => UNCHANGED <<flags, permissionRequestTimeout, timeout, runs>>]_vars

\* a call made with the button disabled for a request in flight was rejected
C19_Witness ==
  /\ blocked = "req" /\ isRequestingPermission
  /\ buttonDisabled /\ buttonTitle = "requesting"

\* C20: an accepted request shows exactly one outcome alert over its
\* lifetime: never two, and one once its handler has finished.
C20_OneOutcomeNotice ==
  \A r \in Runs :
    /\ Len(runs[r].alerts) <= 1
    /\ \A i \in 1..Len(runs[r].alerts) : runs[r].alerts[i] \in OutcomeNotices
    /\ runs[r].pc = "done" => Len(runs[r].alerts) = 1
    /\ Active(r) => runs[r].alerts = <<>>

\* two requests that overlapped (the first lost its flag to the grace
\* callback and finished late) have each shown one alert
C20_Witness ==
  /\ MaxRuns >= 2
  /\ runs[1].pc = "done" /\ Len(runs[1].alerts) = 1
  /\ runs[2].pc = "done" /\ Len(runs[2].alerts) = 1
  /\ runs[2].granted # <<>> /\ runs[1].granted # <<>>

\* a step of the request flow: of requestHealthDataPermission, of the
\* app-state handler, or of one of their timer callbacks
RequestFlowStep ==
  \/ runs' # runs
  \/ nextRun' # nextRun
  \/ blocked' # blocked
  \/ appState' # appState
  \/ grace'[0] < grace[0]
  \/ grace'[GraceDelay] > grace[GraceDelay]
  \/ isRequestingPermission' # isRequestingPermission
  \/ permissionRequestTimeout' # permissionRequestTimeout

\* C21: no step of the request flow changes isInitialized, isInitializing or
\* initError; so whenever a request has been accepted and the in-flight flag
\* is clear again, the guard passes, and a call made then is accepted.
C21_RequestFlowKeepsInitResult ==
  [][/\ RequestFlowStep
          => UNCHANGED <<isInitialized, isInitializing, initError>>
     /\ (nextRun > 1 /\ ~isRequestingPermission)
          => (isInitialized /\ ~isInitializing /\ initError = "null" /\ ~Blocked)
     /\ (Press /\ nextRun > 1 /\ ~isRequestingPermission)
          => /\ nextRun' = nextRun + 1
             /\ isRequestingPermission'
             /\ runs'[nextRun].pc = "sdk"]_vars

\* a request was accepted after the one before it lost its flag to the grace
\* callback, or after the one before it failed
C21_Witness ==
  /\ isInitialized /\ ~isInitializing /\ initError = "null"
  /\ isRequestingPermission
  /\ \E r \in Runs :
       /\ r + 1 \in Runs
       /\ runs[r + 1].pc = "sdk"
       /\ \/ Active(r)
          \/ runs[r].pc = "done" /\ runs[r].alerts = <<"error">>
=============================================================================
